---- MODULE Spec2Model ----
(***************************************************************************)
(* MiniDB: a B+ tree index whose nodes are JSON pages of one backing file. *)
(* The backing file is a sequence of pages (page id i is file[i + 1]); the *)
(* operations of FileManager, of the page codec and of BPlusTree are       *)
(* operators over a store record st = [file, next, wrote] (wrote: the page  *)
(* ids the calls wrote at, a history), and the operations of               *)
(* MiniDB (put, get, range), its construction and close are the actions.   *)
(***************************************************************************)
EXTENDS Integers, Sequences, FiniteSets, TLC

VARIABLES
    file,        \* the backing file: the sequence of its pages
    nextPageId,  \* FileManager.nextPageId
    pageSize,    \* FileManager.pageSize
    rootPageId,  \* BPlusTree.rootPageId
    order,       \* BPlusTree.order
    latest,      \* history: key -> value of the puts this instance completed
    old,         \* history: keys stored by earlier instances over this file
    opens,       \* history: how many instances were constructed before this one
    res,         \* the last operation with its arguments and what it returned
    tail,        \* bytes of the backing file past its last whole page
    db,          \* the MiniDB object: "none" (not constructed), "live", "closed"
    openFds      \* how many file descriptors the program holds open

vars == <<file, nextPageId, pageSize, rootPageId, order, latest, old, opens, res,
          tail, db, openFds>>

\* ---------------------------------------------------------------- bounds
NumKeys == 5          \* Spec puts the keys 5, 10, .., 5 * NumKeys
DeepKeys == 10        \* SpecDeep puts the keys 1 .. DeepKeys
MaxOpens == 1         \* SpecReopen constructs at most this many later instances
MaxConstructs == 2    \* SpecClose calls new MiniDB at most this many times
WideKeys == 8         \* SpecWide puts the keys 1 .. WideKeys
SmallKeys == 5        \* SpecSmall puts the keys 1 .. SmallKeys
SmallPageSize == 90   \* SpecSmall: new FileManager(path, SmallPageSize)

\* ------------------------------------------------------ program constants
DefaultPageSize == 4096
DefaultOrder == 4
MinOrder == 3

Keys == {5 * i : i \in 1..NumKeys}
Values == {"a", "bb"}
QueryKeys == Keys \cup {0, 12}

NoId == -1   \* null / undefined page id

\* ------------------------------------------------------------ page codec
\* A page's bytes. bytes = 0 is a page of zero bytes only; otherwise the page
\* holds a JSON text of `bytes` bytes followed by zero padding, and the other
\* fields are the members of that JSON object. hasValues = FALSE is a JSON
\* text with no "values" member (JSON.stringify drops values: undefined).
ZeroPage ==
    [bytes |-> 0, id |-> NoId, isLeaf |-> FALSE, keys |-> <<>>, children |-> <<>>,
     hasValues |-> FALSE, values |-> <<>>, nextLeaf |-> NoId]

RECURSIVE Digits(_)
Digits(n) == IF n < 0 THEN 1 + Digits(-n) ELSE IF n < 10 THEN 1 ELSE 1 + Digits(n \div 10)

RECURSIVE NumListSize(_)
\* length of the JSON text of the elements of a number array, commas included
NumListSize(s) ==
    IF s = <<>> THEN 0
    ELSE Digits(Head(s)) + (IF Len(s) > 1 THEN 1 ELSE 0) + NumListSize(Tail(s))

RECURSIVE StrListSize(_)
StrListSize(s) ==
    IF s = <<>> THEN 0
    ELSE Len(Head(s)) + 2 + (IF Len(s) > 1 THEN 1 ELSE 0) + StrListSize(Tail(s))

\* length of JSON.stringify(node):
\* {"id":N,"isLeaf":B,"keys":[..],"children":[..],"values":[..],"nextLeaf":N}
JsonSize(node) ==
    6 + Digits(node.id)
    + 10 + (IF node.isLeaf THEN 4 ELSE 5)
    + 9 + NumListSize(node.keys) + 1
    + 13 + NumListSize(node.children) + 1
    + (IF node.hasValues THEN 11 + StrListSize(node.values) + 1 ELSE 0)
    + 12 + (IF node.nextLeaf = NoId THEN 4 ELSE Digits(node.nextLeaf))
    + 1

\* encodePage, given the length n of the JSON text of the node
Encoded(node, n, size) ==
    IF n > size
    THEN [err |-> "PageOverflow", buf |-> ZeroPage]
    ELSE [err |-> "none",
          buf |-> [bytes |-> n, id |-> node.id, isLeaf |-> node.isLeaf,
                   keys |-> node.keys, children |-> node.children,
                   hasValues |-> node.hasValues,
                   values |-> IF node.hasValues THEN node.values ELSE <<>>,
                   nextLeaf |-> node.nextLeaf]]

\* encodePage: the JSON text padded with zeros, or "Page overflow"
encodePage(node, size) == Encoded(node, JsonSize(node), size)

NoNode ==
    [id |-> NoId, isLeaf |-> FALSE, keys |-> <<>>, children |-> <<>>,
     hasValues |-> FALSE, values |-> <<>>, nextLeaf |-> NoId]

\* decodePage: strips the zero padding, "empty page" when nothing is left
decodePage(buf) ==
    IF buf.bytes = 0
    THEN [err |-> "EmptyPage", node |-> NoNode]
    ELSE [err |-> "none",
          node |-> [id |-> buf.id, isLeaf |-> buf.isLeaf, keys |-> buf.keys,
                    children |-> buf.children, hasValues |-> buf.hasValues,
                    values |-> buf.values, nextLeaf |-> buf.nextLeaf]]

\* ----------------------------------------------------------- FileManager
\* the file after `buf` is written at byte offset id * pageSize: a write past
\* the end of the file extends it, the gap reading as zero bytes
PutPage(f, id, buf) ==
    [i \in 1..(IF id + 1 > Len(f) THEN id + 1 ELSE Len(f)) |->
        IF i = id + 1 THEN buf ELSE IF i <= Len(f) THEN f[i] ELSE ZeroPage]

\* new FileManager(path): nextPageId = size / pageSize
FileManagerConstructor(f) == [file |-> f, next |-> Len(f), wrote |-> {}]

\* allocatePage that hands out nextPageId without advancing it
allocatePageKeepsNext(st) ==
    [st |-> [file |-> PutPage(PutPage(st.file, 0, ZeroPage), st.next, ZeroPage),
             next |-> st.next,
             wrote |-> st.wrote \cup {0, st.next}],
     id |-> st.next]

\* allocatePage: writeFileSync(path, empty, {flag: "r+"}) writes pageSize zero
\* bytes at offset 0 of the file, then writeSync writes them at id * pageSize
allocatePage(st) ==
    [st |-> [file |-> PutPage(PutPage(st.file, 0, ZeroPage), st.next, ZeroPage),
             next |-> st.next + 1,
             wrote |-> st.wrote \cup {0, st.next}],
     id |-> st.next]

\* readPage: bytesRead = 0 (offset at or past the end of the file) throws
readPage(st, id) ==
    IF id < 0 \/ id + 1 > Len(st.file)
    THEN [err |-> "PageNotFound", buf |-> ZeroPage]
    ELSE [err |-> "none", buf |-> st.file[id + 1]]

\* writePage: the buffer encodePage returns always has pageSize bytes
writePage(st, id, buf) ==
    [file |-> PutPage(st.file, id, buf), next |-> st.next, wrote |-> st.wrote \cup {id}]

\* -------------------------------------------------------------- BPlusTree
\* Each operation is split where the code binds a result it then tests: the
\* second half takes that result as a parameter.

\* readNode, given what readPage returned
DecodeRead(r) ==
    IF r.err # "none" THEN [err |-> r.err, node |-> NoNode] ELSE decodePage(r.buf)

readNode(st, id) == DecodeRead(readPage(st, id))

\* a writeNode that clears the node's page before it encodes the node
WriteEncodedClearsPage(st, id, e) ==
    IF e.err # "none" THEN [st |-> writePage(st, id, ZeroPage), err |-> e.err]
    ELSE [st |-> writePage(st, id, e.buf), err |-> "none"]

\* writeNode, given what encodePage returned: [st, err]; a node that does not
\* encode is not written
WriteEncoded(st, id, e) ==
    IF e.err # "none" THEN [st |-> st, err |-> e.err]
    ELSE [st |-> writePage(st, id, e.buf), err |-> "none"]

writeNode(st, node) == WriteEncoded(st, node.id, encodePage(node, pageSize))

\* array.splice(pos, 0, x), pos counted from 0
Splice(s, pos, x) == SubSeq(s, 1, pos) \o <<x>> \o SubSeq(s, pos + 1, Len(s))

RECURSIVE findChildIndexFrom(_, _, _)
findChildIndexFrom(keys, key, i) ==
    IF i < Len(keys) /\ key >= keys[i + 1] THEN findChildIndexFrom(keys, key, i + 1) ELSE i

\* first index (from 0) where key < keys[i], keys.length when there is none
findChildIndex(keys, key) == findChildIndexFrom(keys, key, 0)

\* node.children[i], undefined (NoId) when i is out of range
ChildAt(node, i) == IF i + 1 <= Len(node.children) THEN node.children[i + 1] ELSE NoId

\* the child the descent for `key` takes at an internal node
ChildFor(node, key) == ChildAt(node, findChildIndex(node.keys, key))

\* keys.findIndex(k => k === key), -1 when absent
RECURSIVE FindIndexFrom(_, _, _)
FindIndexFrom(keys, key, i) ==
    IF i >= Len(keys) THEN -1
    ELSE IF keys[i + 1] = key THEN i ELSE FindIndexFrom(keys, key, i + 1)

Absent == [err |-> "none", isNull |-> TRUE, value |-> ""]
Found(v) == [err |-> "none", isNull |-> FALSE, value |-> v]
Thrown(e) == [err |-> e, isNull |-> TRUE, value |-> ""]

\* searchRecursive at a leaf, given the index findIndex returned
ValueAt(node, idx) == IF idx = -1 THEN Absent ELSE Found(node.values[idx + 1])

RECURSIVE searchRecursive(_, _, _)
\* searchRecursive, given what readNode returned
SearchIn(st, r, key) ==
    IF r.err # "none" THEN Thrown(r.err)
    ELSE IF r.node.isLeaf
    THEN IF ~r.node.hasValues THEN Absent
         ELSE ValueAt(r.node, FindIndexFrom(r.node.keys, key, 0))
    ELSE searchRecursive(st, ChildFor(r.node, key), key)

searchRecursive(st, nodeId, key) == SearchIn(st, readNode(st, nodeId), key)

search(st, root, key) == searchRecursive(st, root, key)

RECURSIVE FindLeafIn(_, _, _)
\* the loop of findLeafForKey, given what the last readNode returned
FindLeafIn(st, r, key) ==
    IF r.err # "none" THEN [err |-> r.err, id |-> NoId]
    ELSE IF r.node.isLeaf THEN [err |-> "none", id |-> r.node.id]
    ELSE FindLeafIn(st, readNode(st, ChildFor(r.node, key)), key)

findLeafForKey(st, nodeId, key) == FindLeafIn(st, readNode(st, nodeId), key)

\* the for loop of range over one leaf: [returned, rows]
RECURSIVE ScanLeaf(_, _, _, _, _)
ScanLeaf(node, start, end, i, rows) ==
    IF i >= Len(node.keys) THEN [returned |-> FALSE, rows |-> rows]
    ELSE IF node.keys[i + 1] > end THEN [returned |-> TRUE, rows |-> rows]
    ELSE ScanLeaf(node, start, end, i + 1,
                  IF node.keys[i + 1] >= start
                  THEN Append(rows, <<node.keys[i + 1], node.values[i + 1]>>)
                  ELSE rows)

RECURSIVE RangeLoop(_, _, _, _, _)
\* the while loop of range, after the for loop over `node` gave s
RangeNext(st, node, start, end, s) ==
    IF s.returned \/ node.nextLeaf = NoId THEN [err |-> "none", rows |-> s.rows]
    ELSE RangeLoop(st, readNode(st, node.nextLeaf), start, end, s.rows)

\* the while loop of range, given what the last readNode returned
RangeLoop(st, r, start, end, rows) ==
    IF r.err # "none" THEN [err |-> r.err, rows |-> <<>>]
    ELSE IF ~r.node.isLeaf \/ ~r.node.hasValues THEN [err |-> "none", rows |-> rows]
    ELSE RangeNext(st, r.node, start, end, ScanLeaf(r.node, start, end, 0, rows))

\* range, given what findLeafForKey returned
RangeFrom(st, l, start, end) ==
    IF l.err # "none" THEN [err |-> l.err, rows |-> <<>>]
    ELSE RangeLoop(st, readNode(st, l.id), start, end, <<>>)

range(st, root, start, end) == RangeFrom(st, findLeafForKey(st, root, start), start, end)

\* ------------------------------------------------------ BPlusTree insert
\* What insertRecursive hands back: the store as the call left it, the error
\* it threw ("none" when it returned), and the InsertResult (split = FALSE
\* is the null result).
NoSplit(st) ==
    [st |-> st, err |-> "none", split |-> FALSE, promotedKey |-> 0, rightPageId |-> NoId]
SplitResult(st, key, right) ==
    [st |-> st, err |-> "none", split |-> TRUE, promotedKey |-> key, rightPageId |-> right]
Throws(st, e) ==
    [st |-> st, err |-> e, split |-> FALSE, promotedKey |-> 0, rightPageId |-> NoId]

\* return null, after writeNode returned w
ReturnNull(w) == IF w.err # "none" THEN Throws(w.st, w.err) ELSE NoSplit(w.st)

\* writeNode(node); return null
WriteAndReturnNull(st, node) == ReturnNull(writeNode(st, node))

\* return {promotedKey, rightPageId}, after the second writeNode returned w
ReturnSplit(w, key, right) ==
    IF w.err # "none" THEN Throws(w.st, w.err) ELSE SplitResult(w.st, key, right)

\* writeNode(rightNode) and the return, after writeNode(node) returned w
WriteRight(w, rightNode, key) ==
    IF w.err # "none" THEN Throws(w.st, w.err)
    ELSE ReturnSplit(writeNode(w.st, rightNode), key, rightNode.id)

\* a split that writes the right node before the left one
WriteHalvesRightFirst(st, leftNode, rightNode, key) ==
    WriteRight(writeNode(st, rightNode), leftNode, key)

\* writeNode(node); writeNode(rightNode); return {promotedKey, rightPageId}
WriteHalves(st, leftNode, rightNode, key) ==
    WriteRight(writeNode(st, leftNode), rightNode, key)

\* the while loop of insertIntoLeaf and insertIntoInternal: the first index
\* (from 0) whose key is not below `key`
RECURSIVE SortedPosFrom(_, _, _)
SortedPosFrom(keys, key, pos) ==
    IF pos < Len(keys) /\ keys[pos + 1] < key THEN SortedPosFrom(keys, key, pos + 1) ELSE pos

\* splitLeaf, given mid and what allocatePage returned
SplitLeafAt(a, node, mid) ==
    WriteHalves(a.st,
                [node EXCEPT !.keys = SubSeq(node.keys, 1, mid),
                             !.values = SubSeq(node.values, 1, mid),
                             !.nextLeaf = a.id],
                [id |-> a.id, isLeaf |-> TRUE,
                 keys |-> SubSeq(node.keys, mid + 1, Len(node.keys)), children |-> <<>>,
                 hasValues |-> TRUE,
                 values |-> SubSeq(node.values, mid + 1, Len(node.values)),
                 nextLeaf |-> node.nextLeaf],
                node.keys[mid + 1])

\* splitLeaf with mid = Math.floor(keys.length / 2)
splitLeafFloorMid(st, node) ==
    IF ~node.hasValues THEN Throws(st, "NoValues")
    ELSE SplitLeafAt(allocatePage(st), node, Len(node.keys) \div 2)

\* splitLeaf: mid = Math.ceil(keys.length / 2)
splitLeaf(st, node) ==
    IF ~node.hasValues THEN Throws(st, "NoValues")
    ELSE SplitLeafAt(allocatePage(st), node, (Len(node.keys) + 1) \div 2)

\* insertIntoLeaf with the overflow test off by one (keys.length > order + 1)
PlaceInLeafLateSplit(st, grown) ==
    IF Len(grown.keys) > order + 1 THEN splitLeaf(st, grown)
    ELSE WriteAndReturnNull(st, grown)

\* insertIntoLeaf: the overflow check, after the splices
PlaceInLeaf(st, grown) ==
    IF Len(grown.keys) > order THEN splitLeaf(st, grown)
    ELSE WriteAndReturnNull(st, grown)

\* insertIntoLeaf, given the position the while loop found
InsertIntoLeafAt(st, node, key, value, pos) ==
    IF pos < Len(node.keys) /\ node.keys[pos + 1] = key
    THEN WriteAndReturnNull(st, [node EXCEPT !.values[pos + 1] = value])
    ELSE PlaceInLeaf(st, [node EXCEPT !.keys = Splice(node.keys, pos, key),
                                      !.values = Splice(node.values, pos, value)])

\* if (!node.values) node.values = []
WithValues(node) ==
    IF node.hasValues THEN node ELSE [node EXCEPT !.hasValues = TRUE, !.values = <<>>]

insertIntoLeaf(st, node, key, value) ==
    InsertIntoLeafAt(st, WithValues(node), key, value, SortedPosFrom(node.keys, key, 0))

\* splitInternal that leaves the promoted key in the right node, as a leaf
\* split does (rightKeys = node.keys.slice(midIndex))
SplitInternalAtCopiesUp(a, node, midIndex) ==
    WriteHalves(a.st,
                [node EXCEPT !.keys = SubSeq(node.keys, 1, midIndex),
                             !.children = SubSeq(node.children, 1, midIndex + 1)],
                [id |-> a.id, isLeaf |-> FALSE,
                 keys |-> SubSeq(node.keys, midIndex + 1, Len(node.keys)),
                 children |-> SubSeq(node.children, midIndex + 2, Len(node.children)),
                 hasValues |-> FALSE, values |-> <<>>, nextLeaf |-> NoId],
                node.keys[midIndex + 1])

\* splitInternal, given midIndex and what allocatePage returned
SplitInternalAt(a, node, midIndex) ==
    WriteHalves(a.st,
                [node EXCEPT !.keys = SubSeq(node.keys, 1, midIndex),
                             !.children = SubSeq(node.children, 1, midIndex + 1)],
                [id |-> a.id, isLeaf |-> FALSE,
                 keys |-> SubSeq(node.keys, midIndex + 2, Len(node.keys)),
                 children |-> SubSeq(node.children, midIndex + 2, Len(node.children)),
                 hasValues |-> FALSE, values |-> <<>>, nextLeaf |-> NoId],
                node.keys[midIndex + 1])

\* splitInternal: midIndex = Math.floor(keys.length / 2)
splitInternal(st, node) == SplitInternalAt(allocatePage(st), node, Len(node.keys) \div 2)

\* insertIntoInternal that absorbs a child's split and still hands the split
\* to its caller (a missing "return null")
PlaceInInternalKeepsResult(result, grown) ==
    IF Len(grown.keys) > order THEN splitInternal(result.st, grown)
    ELSE ReturnSplit(writeNode(result.st, grown), result.promotedKey, result.rightPageId)

\* insertIntoInternal: the overflow check, after the splices
PlaceInInternal(result, grown) ==
    IF Len(grown.keys) > order THEN splitInternal(result.st, grown)
    ELSE WriteAndReturnNull(result.st, grown)

\* insertIntoInternal that splices the new right child in at pos, to the left
\* of the child that split
AbsorbAtChildBefore(node, result, pos) ==
    PlaceInInternal(result,
                    [node EXCEPT
                       !.keys = Splice(node.keys, pos, result.promotedKey),
                       !.children = Splice(node.children, pos, result.rightPageId)])

\* insertIntoInternal: the splices, given the position the while loop found
AbsorbAt(node, result, pos) ==
    PlaceInInternal(result,
                    [node EXCEPT
                       !.keys = Splice(node.keys, pos, result.promotedKey),
                       !.children = Splice(node.children, pos + 1, result.rightPageId)])

\* insertIntoInternal, given what insertRecursive on the child returned
Absorb(node, result) ==
    IF result.err # "none" THEN result
    ELSE IF ~result.split THEN WriteAndReturnNull(result.st, node)
    ELSE AbsorbAt(node, result, SortedPosFrom(node.keys, result.promotedKey, 0))

RECURSIVE insertRecursive(_, _, _, _)

insertIntoInternal(st, node, key, value) ==
    Absorb(node, insertRecursive(st, ChildFor(node, key), key, value))

\* insertRecursive, given what readNode returned
InsertInto(st, r, key, value) ==
    IF r.err # "none" THEN Throws(st, r.err)
    ELSE IF r.node.isLeaf THEN insertIntoLeaf(st, r.node, key, value)
    ELSE insertIntoInternal(st, r.node, key, value)

insertRecursive(st, nodeId, key, value) == InsertInto(st, readNode(st, nodeId), key, value)

\* what insert and the constructor leave: the store, the root id, the error
Rooted(w, root) == [st |-> w.st, root |-> root, err |-> w.err]

\* insert that lists the new right page before the old root in newRoot.children
WriteNewRootRightFirst(a, root, result) ==
    Rooted(writeNode(a.st, [id |-> a.id, isLeaf |-> FALSE,
                            keys |-> <<result.promotedKey>>,
                            children |-> <<result.rightPageId, root>>,
                            hasValues |-> FALSE, values |-> <<>>, nextLeaf |-> NoId]),
           a.id)

\* insert: writeNode(newRoot), given what allocatePage returned
WriteNewRoot(a, root, result) ==
    Rooted(writeNode(a.st, [id |-> a.id, isLeaf |-> FALSE,
                            keys |-> <<result.promotedKey>>,
                            children |-> <<root, result.rightPageId>>,
                            hasValues |-> FALSE, values |-> <<>>, nextLeaf |-> NoId]),
           a.id)

\* this.rootPageId after insert: newRoot.id once writeNode(newRoot) returned
NewRootOr(r, root) == IF r.err # "none" THEN [r EXCEPT !.root = root] ELSE r

\* insert, given what insertRecursive returned
GrowRoot(root, result) ==
    IF result.err # "none" \/ ~result.split
    THEN [st |-> result.st, root |-> root, err |-> result.err]
    ELSE NewRootOr(WriteNewRoot(allocatePage(result.st), root, result), root)

\* insert: [st, root, err]
insert(st, root, key, value) == GrowRoot(root, insertRecursive(st, root, key, value))

\* the constructor: writeNode(root), given what allocatePage returned
WriteFirstRoot(a) ==
    Rooted(writeNode(a.st, [id |-> a.id, isLeaf |-> TRUE, keys |-> <<>>,
                            children |-> <<>>, hasValues |-> TRUE, values |-> <<>>,
                            nextLeaf |-> NoId]),
           a.id)

\* a constructor that allocates a root only for an empty file and otherwise
\* takes page 0 for the root
BPlusTreeConstructorReusesRoot(st) ==
    IF st.next > 0 THEN [st |-> st, root |-> 0, err |-> "none"]
    ELSE WriteFirstRoot(allocatePage(st))

\* new BPlusTree(fileManager, order): always a fresh empty leaf root
BPlusTreeConstructor(st) == WriteFirstRoot(allocatePage(st))

\* new MiniDB(path) over a file that holds the pages f
MiniDBConstructor(f) == BPlusTreeConstructor(FileManagerConstructor(f))

\* ---------------------------------------------------------------- actions
Store == [file |-> file, next |-> nextPageId, wrote |-> {}]

Result(op, a, b, v, err, isNull, value, rows) ==
    [op |-> op, a |-> a, b |-> b, v |-> v, err |-> err,
     isNull |-> isNull, value |-> value, rows |-> rows]

\* the state after new FileManager(path, size) and a tree constructor with
\* order o, which returned c
ConstructedWith(c, o, size) ==
    /\ pageSize = size
    /\ order = o
    /\ c.err = "none"
    /\ file = c.st.file
    /\ nextPageId = c.st.next
    /\ rootPageId = c.root
    /\ latest = <<>>
    /\ res = Result("construct", 0, 0, "", "none", TRUE, "", <<>>)
    /\ tail = 0
    /\ db = "live"
    /\ openFds = 1

\* the state after a constructor with tree order o returned c
Constructed(c, o) == ConstructedWith(c, o, DefaultPageSize)

\* the file a first MiniDB leaves when it is closed right after construction
OnePageFile == MiniDBConstructor(<<>>).st.file

\* MiniDB over a brand-new file, or over the one-page file of an earlier run
Init ==
    /\ old = {}
    /\ \/ opens = 0 /\ Constructed(MiniDBConstructor(<<>>), DefaultOrder)
       \/ opens = 1 /\ Constructed(MiniDBConstructor(OnePageFile), DefaultOrder)

\* the state put(k, v) leaves, given what insert returned
PutDone(k, v, r) ==
    /\ file' = r.st.file
    /\ nextPageId' = r.st.next
    /\ rootPageId' = r.root
    /\ latest' = IF r.err = "none" THEN (k :> v) @@ latest ELSE latest
    /\ res' = Result("put", k, 0, v, r.err, TRUE, "", <<>>)
    /\ UNCHANGED <<pageSize, order, old, opens, tail, db, openFds>>

\* MiniDB.put(k, v)
Put(k, v) == PutDone(k, v, insert(Store, rootPageId, k, v))

GetDone(k, r) ==
    /\ res' = Result("get", k, 0, "", r.err, r.isNull, r.value, <<>>)
    /\ UNCHANGED <<file, nextPageId, pageSize, rootPageId, order, latest, old, opens,
                   tail, db, openFds>>

\* MiniDB.get(k)
Get(k) == GetDone(k, search(Store, rootPageId, k))

\* a range that stores the leaf it starts at in this.rootPageId
RangeDoneMovesRoot(s, e, r) ==
    /\ res' = Result("range", s, e, "", r.err, TRUE, "", r.rows)
    /\ rootPageId' = IF r.err = "none" THEN findLeafForKey(Store, rootPageId, s).id
                     ELSE rootPageId
    /\ UNCHANGED <<file, nextPageId, pageSize, order, latest, old, opens,
                   tail, db, openFds>>

RangeDone(s, e, r) ==
    /\ res' = Result("range", s, e, "", r.err, TRUE, "", r.rows)
    /\ UNCHANGED <<file, nextPageId, pageSize, rootPageId, order, latest, old, opens,
                   tail, db, openFds>>

\* MiniDB.range(s, e)
Range(s, e) == RangeDone(s, e, range(Store, rootPageId, s, e))

Next ==
    \/ \E k \in Keys, v \in Values : Put(k, v)
    \/ \E k \in QueryKeys : Get(k)
    \/ \E s \in QueryKeys, e \in QueryKeys : Range(s, e)

Spec == Init /\ [][Next]_vars

\* the command loop with one value for every key
NextQuery ==
    \/ \E k \in Keys : Put(k, "a")
    \/ \E k \in QueryKeys : Get(k)
    \/ \E s \in QueryKeys, e \in QueryKeys : Range(s, e)

SpecQuery == Init /\ [][NextQuery]_vars

\* ------------------------------------------------- reopening the file
\* the state a later construction leaves, given what the constructor returned
Reopened(c) ==
    /\ c.err = "none"
    /\ file' = c.st.file
    /\ nextPageId' = c.st.next
    /\ rootPageId' = c.root
    /\ latest' = <<>>
    /\ old' = old \cup DOMAIN latest
    /\ opens' = opens + 1
    /\ res' = Result("construct", 0, 0, "", "none", TRUE, "", <<>>)
    /\ UNCHANGED <<pageSize, order, tail, db, openFds>>

\* The process ends (its descriptor goes with it) and a new MiniDB is
\* constructed over the same file.
Reopen == opens < MaxOpens /\ Reopened(MiniDBConstructor(file))

NextReopen ==
    \/ \E k \in Keys : Put(k, "a")
    \/ \E k \in QueryKeys : Get(k)
    \/ Reopen

SpecReopen == Init /\ [][NextReopen]_vars

\* --------------------------------------------- constructing and closing
\* A program that calls new MiniDB(path), catches what it throws, puts keys,
\* calls close() and may construct again. The file it finds may end in a
\* partial page.
Tails == {0, 100}

\* new FileManager(path), once openSync returned: size % pageSize !== 0 throws
FileManagerOpened(f, t) ==
    IF (Len(f) * pageSize + t) % pageSize # 0
    THEN [st |-> [file |-> f, next |-> 0, wrote |-> {}], err |-> "CorruptStore"]
    ELSE [st |-> FileManagerConstructor(f), err |-> "none"]

\* new MiniDB(path), given what new FileManager returned
TreeOver(m) ==
    IF m.err # "none" THEN [st |-> m.st, root |-> NoId, err |-> m.err]
    ELSE BPlusTreeConstructor(m.st)

\* new MiniDB(path) over a file of the pages f and t more bytes
MiniDBConstructorOver(f, t) == TreeOver(FileManagerOpened(f, t))

\* the state new MiniDB(path) leaves, given what the constructors returned:
\* openSync ran before the size check, and nothing closes the descriptor
ConstructDone(c) ==
    /\ openFds' = openFds + 1
    /\ db' = IF c.err = "none" THEN "live" ELSE "none"
    /\ file' = c.st.file
    /\ nextPageId' = c.st.next
    /\ rootPageId' = c.root
    /\ latest' = <<>>
    /\ old' = old \cup DOMAIN latest
    /\ opens' = opens + 1
    /\ res' = Result("construct", 0, 0, "", c.err, TRUE, "", <<>>)
    /\ UNCHANGED <<pageSize, order, tail>>

Construct ==
    /\ db # "live"
    /\ opens < MaxConstructs
    /\ ConstructDone(MiniDBConstructorOver(file, tail))

\* MiniDB.close(): fs.closeSync(this.fd)
Close ==
    /\ db = "live"
    /\ db' = "closed"
    /\ openFds' = openFds - 1
    /\ res' = Result("close", 0, 0, "", "none", TRUE, "", <<>>)
    /\ UNCHANGED <<file, nextPageId, pageSize, rootPageId, order, latest, old, opens, tail>>

\* before the first new MiniDB: no file, or the one-page file of an earlier
\* run, with or without a partial page after it
InitClose ==
    /\ pageSize = DefaultPageSize
    /\ order = DefaultOrder
    /\ file \in {<<>>, OnePageFile}
    /\ tail \in Tails
    /\ nextPageId = 0
    /\ rootPageId = NoId
    /\ latest = <<>>
    /\ old = {}
    /\ opens = 0
    /\ db = "none"
    /\ openFds = 0
    /\ res = Result("none", 0, 0, "", "none", TRUE, "", <<>>)

NextClose ==
    \/ Construct
    \/ \E k \in Keys : db = "live" /\ Put(k, "a")
    \/ Close

SpecClose == InitClose /\ [][NextClose]_vars

\* ------------------------------------------ a tree of the smallest order
\* new BPlusTree(fileManager, 3) over a brand-new file or over the one-page
\* file of an earlier run; enough keys for internal nodes to split.
InitDeep ==
    /\ old = {}
    /\ \/ opens = 0 /\ Constructed(MiniDBConstructor(<<>>), MinOrder)
       \/ opens = 1 /\ Constructed(MiniDBConstructor(OnePageFile), MinOrder)

NextDeep == \E k \in 1..DeepKeys : Put(k, "a")

SpecDeep == InitDeep /\ [][NextDeep]_vars

\* ------------------------------------------ the default order, more keys
\* new BPlusTree(fileManager, 4) as MiniDB builds it, with enough keys for
\* leaves inside the chain to split.
InitWide ==
    /\ old = {}
    /\ \/ opens = 0 /\ Constructed(MiniDBConstructor(<<>>), DefaultOrder)
       \/ opens = 1 /\ Constructed(MiniDBConstructor(OnePageFile), DefaultOrder)

NextWide == \E k \in 1..WideKeys : Put(k, "a")

SpecWide == InitWide /\ [][NextWide]_vars

\* --------------------------------------------------------- small pages
\* new FileManager(path, SmallPageSize) and new BPlusTree(fileManager, 3):
\* a leaf of three one-letter values fills a page, and a longer value makes
\* encodePage throw.
SmallValues == {"a", "bbbbbbbbb"}

InitSmall ==
    /\ old = {}
    /\ \/ opens = 0 /\ ConstructedWith(MiniDBConstructor(<<>>), MinOrder, SmallPageSize)
       \/ opens = 1 /\ ConstructedWith(MiniDBConstructor(OnePageFile), MinOrder, SmallPageSize)

NextSmall == \E k \in 1..SmallKeys, v \in SmallValues : Put(k, v)

SpecSmall == InitSmall /\ [][NextSmall]_vars

\* ------------------------------------------------- reading the structure
\* the page ids a descent from `id` can visit (fuel bounds a cyclic file)
RECURSIVE Reach(_, _, _)
Reach(st, id, fuel) ==
    LET r == readNode(st, id) IN
    IF fuel = 0 \/ r.err # "none" \/ r.node.isLeaf THEN {id}
    ELSE {id} \cup UNION {Reach(st, r.node.children[i], fuel - 1) :
                              i \in 1..Len(r.node.children)}

Reachable == Reach(Store, rootPageId, Len(file))

\* the depths at which a descent from `id` ends: at a leaf, or at a page that
\* cannot be read or decoded
RECURSIVE Depths(_, _, _, _)
Depths(st, id, d, fuel) ==
    LET r == readNode(st, id) IN
    IF fuel = 0 \/ r.err # "none" \/ r.node.isLeaf THEN {d}
    ELSE UNION {Depths(st, r.node.children[i], d + 1, fuel - 1) :
                    i \in 1..Len(r.node.children)}

LeafDepths == Depths(Store, rootPageId, 0, Len(file))

\* the keys of the leaves under `id`, left to right (none for a page that
\* does not decode)
RECURSIVE KeysUnder(_, _, _)
RECURSIVE KeysUnderAll(_, _, _)
KeysUnder(st, id, fuel) ==
    LET r == readNode(st, id) IN
    IF fuel = 0 \/ r.err # "none" THEN <<>>
    ELSE IF r.node.isLeaf THEN r.node.keys
    ELSE KeysUnderAll(st, r.node.children, fuel - 1)
KeysUnderAll(st, ids, fuel) ==
    IF ids = <<>> THEN <<>>
    ELSE KeysUnder(st, Head(ids), fuel) \o KeysUnderAll(st, Tail(ids), fuel)

\* the leaf a descent through the first child of every node ends at
RECURSIVE LeftmostLeaf(_, _, _)
LeftmostLeaf(st, id, fuel) ==
    LET r == readNode(st, id) IN
    IF fuel = 0 \/ r.err # "none" \/ r.node.isLeaf THEN id
    ELSE LeftmostLeaf(st, ChildAt(r.node, 0), fuel - 1)

\* the walk along nextLeaf from page `id`: the ids visited, their keys
\* concatenated, and ok = the walk ended at a leaf whose nextLeaf is null
RECURSIVE ChainFrom(_, _, _, _, _)
ChainFrom(st, id, fuel, ids, keys) ==
    LET r == readNode(st, id) IN
    IF fuel = 0 \/ r.err # "none" \/ ~r.node.isLeaf
    THEN [ok |-> FALSE, ids |-> ids, keys |-> keys]
    ELSE IF r.node.nextLeaf = NoId
    THEN [ok |-> TRUE, ids |-> Append(ids, id), keys |-> keys \o r.node.keys]
    ELSE ChainFrom(st, r.node.nextLeaf, fuel - 1, Append(ids, id), keys \o r.node.keys)

\* the pages a descent from the root ends at (the leaves of the tree)
ReachableLeaves ==
    {id \in Reachable :
        readNode(Store, id).err # "none" \/ readNode(Store, id).node.isLeaf}


StrictlyAscending(s) == \A i \in 1..(Len(s) - 1) : s[i] < s[i + 1]

RECURSIVE AscendingSeq(_)
AscendingSeq(S) ==
    IF S = {} THEN <<>>
    ELSE LET m == CHOOSE x \in S : \A y \in S : x <= y IN <<m>> \o AscendingSeq(S \ {m})

\* the (key, latest value) pairs of the completed puts with a <= key <= b
ExpectedRows(a, b) ==
    LET ks == AscendingSeq({k \in DOMAIN latest : a <= k /\ k <= b}) IN
    [i \in 1..Len(ks) |-> <<ks[i], latest[ks[i]]>>]

\* ----------------------------------------------------------------- claims

\* C1 (Search-completeness): a get of a key whose put completed returns the
\* value of the most recent put; it neither returns absent nor raises.
SearchCompleteness ==
    (res.op = "get" /\ res.a \in DOMAIN latest)
        => (res.err = "none" /\ ~res.isNull /\ res.value = latest[res.a])

\* C2 (Range correctness): for start <= end, range(start, end) returns exactly
\* the (key, latest value) pairs of the put keys in [start, end], ascending.
RangeCorrectness ==
    (res.op = "range" /\ res.a <= res.b)
        => (res.err = "none" /\ res.rows = ExpectedRows(res.a, res.b))

\* C3 (allocate is a pure append): in every state, allocate() returns the next
\* identifier, adds one zero page at that identifier and leaves the bytes of
\* every page the file already holds (page 0 among them) as they were.
AllocateIsPureAppend ==
    LET a == allocatePage(Store) IN
    /\ a.id = nextPageId
    /\ Len(a.st.file) = Len(file) + 1
    /\ a.st.file[a.id + 1] = ZeroPage
    /\ \A i \in 1..Len(file) : a.st.file[i] = file[i]

\* C4 (Idempotent overwrite): a put(k, v) of a key whose earlier put completed
\* makes get(k) return v and changes no structure: no page allocated, root id
\* unchanged, the leaves' keys unchanged, one entry for k.
IdempotentOverwrite ==
    [][\A k \in Keys, v \in Values :
        (k \in DOMAIN latest /\ res'.op = "put" /\ res'.a = k /\ res'.v = v /\ Put(k, v))
            => /\ search(Store', rootPageId', k) = Found(v)
               /\ nextPageId' = nextPageId
               /\ Len(file') = Len(file)
               /\ rootPageId' = rootPageId
               /\ KeysUnder(Store', rootPageId', Len(file'))
                      = KeysUnder(Store, rootPageId, Len(file))
               /\ Cardinality({i \in 1..Len(KeysUnder(Store', rootPageId', Len(file'))) :
                      KeysUnder(Store', rootPageId', Len(file'))[i] = k}) = 1]_vars

\* C5 (Split correctness, concrete): with order 4, once the keys 5, 10, 15, 20
\* and 25 are put, 25 last, the root holds the one key 15 and its two children
\* are the leaves {5, 10} and {15, 20, 25}; range(5, 25) returns the five
\* pairs ascending and get(15) returns the value put for 15.
SplitCorrectnessConcrete ==
    (/\ order = 4
     /\ res.op = "put" /\ res.a = 25 /\ res.err = "none"
     /\ DOMAIN latest = {5, 10, 15, 20, 25})
        => LET root == readNode(Store, rootPageId)
               left == readNode(Store, ChildAt(root.node, 0))
               right == readNode(Store, ChildAt(root.node, 1))
               rows == range(Store, rootPageId, 5, 25)
           IN  /\ root.err = "none" /\ ~root.node.isLeaf
               /\ root.node.keys = <<15>>
               /\ Len(root.node.children) = 2
               /\ left.err = "none" /\ left.node.isLeaf /\ left.node.keys = <<5, 10>>
               /\ right.err = "none" /\ right.node.isLeaf
               /\ right.node.keys = <<15, 20, 25>>
               /\ rows.err = "none" /\ rows.rows = ExpectedRows(5, 25)
               /\ search(Store, rootPageId, 15) = Found(latest[15])

\* C6 (missing is not an error): a get of a key that was never put returns
\* the absent result, and a range with no put key in [start, end] (start > end
\* included) returns the empty sequence; neither raises.
MissingIsNotAnError ==
    /\ (res.op = "get" /\ res.a \notin DOMAIN latest)
           => (res.err = "none" /\ res.isNull)
    /\ (res.op = "range" /\ ~\E k \in DOMAIN latest : res.a <= k /\ k <= res.b)
           => (res.err = "none" /\ res.rows = <<>>)

\* C7 (Fresh-root reset): right after a tree is constructed over a file that
\* already holds N >= 1 pages, the root is page N, a new empty leaf, get
\* returns absent for every key (those of earlier instances among them) and
\* every range is empty.
FreshRootReset ==
    (res.op = "construct" /\ opens >= 1)
        => /\ rootPageId = Len(file) - 1
           /\ rootPageId >= 1
           /\ LET r == readNode(Store, rootPageId) IN
              r.err = "none" /\ r.node.isLeaf /\ r.node.keys = <<>> /\ r.node.values = <<>>
           /\ \A k \in QueryKeys \cup old : search(Store, rootPageId, k) = Absent
           /\ \A s \in QueryKeys, e \in QueryKeys :
                  range(Store, rootPageId, s, e) = [err |-> "none", rows |-> <<>>]

\* a tree constructed over a file in which an earlier instance's leaf still
\* holds the keys it stored
FreshRootResetWitness ==
    /\ res.op = "construct" /\ opens >= 1 /\ old # {}
    /\ \E i \in 1..Len(file) :
           /\ i - 1 # rootPageId
           /\ file[i].bytes > 0 /\ file[i].isLeaf
           /\ \E j \in 1..Len(file[i].keys) : file[i].keys[j] \in old

\* C8 (Sorted-invariant): every page reachable from the root decodes to a node
\* with strictly ascending keys, as many values as keys in a leaf and one
\* more child than keys in an internal node.
SortedInvariant ==
    \A id \in Reachable :
        LET r == readNode(Store, id) IN
        /\ r.err = "none"
        /\ StrictlyAscending(r.node.keys)
        /\ r.node.isLeaf => (r.node.hasValues /\ Len(r.node.values) = Len(r.node.keys))
        /\ ~r.node.isLeaf => Len(r.node.children) = Len(r.node.keys) + 1

\* C9 (Balanced height): after every put, every path from the root to a leaf
\* (or to a page that no longer decodes) has the same length.
BalancedHeight == Cardinality(LeafDepths) = 1

\* a tree of three levels: an internal node split and the root was replaced
BalancedHeightWitness ==
    /\ res.op = "put" /\ res.err = "none"
    /\ LeafDepths = {2}
    /\ \E id \in Reachable : id # rootPageId /\ ~readNode(Store, id).node.isLeaf
                             /\ readNode(Store, id).err = "none"

\* C10 (Capacity): after every put, every node reachable from the root holds
\* at most `order` keys.
Capacity ==
    \A id \in Reachable :
        LET r == readNode(Store, id) IN r.err = "none" => Len(r.node.keys) <= order

\* after a put, a full leaf under a full internal node: one more key in
\* either would exceed `order`
CapacityWitness ==
    /\ res.op = "put" /\ res.err = "none"
    /\ \E id \in Reachable :
           LET r == readNode(Store, id) IN
           r.err = "none" /\ r.node.isLeaf /\ Len(r.node.keys) = order
    /\ \E id \in Reachable :
           LET r == readNode(Store, id) IN
           r.err = "none" /\ ~r.node.isLeaf /\ Len(r.node.keys) = order

\* C11 (Leaf chain): after every completed put, following nextLeaf from the
\* leftmost leaf visits every leaf of the tree exactly once and ends at a leaf
\* whose nextLeaf is null, and the keys of the visited leaves, concatenated,
\* are the strictly ascending list of all keys put so far.
LeafChain ==
    (res.op = "put" /\ res.err = "none")
        => LET c == ChainFrom(Store, LeftmostLeaf(Store, rootPageId, Len(file)),
                              Len(file) + 1, <<>>, <<>>)
           IN  /\ c.ok
               /\ \A i, j \in 1..Len(c.ids) : c.ids[i] = c.ids[j] => i = j
               /\ {c.ids[i] : i \in 1..Len(c.ids)} = ReachableLeaves
               /\ c.keys = AscendingSeq(DOMAIN latest)

\* the result of the k-th allocatePage of a store, k >= 1
RECURSIVE AllocateTimes(_, _)
AllocateTimes(st, k) ==
    IF k = 1 THEN allocatePage(st) ELSE AllocateTimes(allocatePage(st).st, k - 1)

\* the length of the backing file in bytes
FileLength(f) == Len(f) * pageSize

\* C12 (Dense page ids): the k-th allocate() on a store opened over a file of
\* L pages returns L + k - 1, the next allocatable id never decreases and
\* every id handed out is above every earlier one, and after every allocate
\* and write of a store (one whose construction succeeded) the file length
\* is nextPageId * pageSize.
DensePageIds ==
    [][db' = "live"
           => /\ FileLength(file') = nextPageId' * pageSize
              /\ FileLength(file') % pageSize = 0
              /\ nextPageId' >= nextPageId
              /\ \A k \in 1..3 :
                     LET a == AllocateTimes(FileManagerConstructor(file'), k) IN
                     /\ a.id = Len(file') + k - 1
                     /\ FileLength(a.st.file) = a.st.next * pageSize
              /\ LET a == allocatePage(Store') IN
                 /\ a.id = nextPageId'
                 /\ a.id >= Len(file)
                 /\ a.st.next = a.id + 1
                 /\ FileLength(a.st.file) = a.st.next * pageSize]_vars

\* a put that allocated pages in a store opened over the pages of an earlier
\* instance: the root leaf of the later instance was split
DensePageIdsWitness ==
    /\ res.op = "put" /\ res.err = "none" /\ db = "live"
    /\ opens >= 1 /\ old # {}
    /\ ~readNode(Store, rootPageId).node.isLeaf
    /\ nextPageId = Len(file)

\* C13 (Handle released once): whenever no MiniDB is live (before the first
\* construction, after close(), after a construction that failed with
\* CorruptStore) the program holds no open descriptor of the file: the handle
\* a construction opens is released once, on every exit path.
HandleReleasedOnce ==
    /\ openFds >= 0
    /\ db # "live" => openFds = 0
    /\ db = "live" => openFds = 1

\* the keys stored in the leaves under page `id` of the store st
KeySetUnderIn(st, id) ==
    LET ks == KeysUnder(st, id, Len(st.file)) IN {ks[i] : i \in 1..Len(ks)}

\* the keys stored in the leaves under page `id`
KeySetUnder(id) == KeySetUnderIn(Store, id)

\* the reachable leaves that hold key k
LeavesHolding(k) ==
    {id \in Reachable :
        LET r == readNode(Store, id) IN
        r.err = "none" /\ r.node.isLeaf /\ \E i \in 1..Len(r.node.keys) : r.node.keys[i] = k}

\* C14 (Separator invariant): after every completed put, in every internal
\* node every key stored under child i is at least keys[i-1] (for i > 0) and
\* below keys[i] (for i < n), so the descent 'smallest i with k < keys[i],
\* else n' ends at the one leaf that holds k, for every key k the tree stores
\* (every put key, when no page of the tree was zeroed).
SeparatorInvariant ==
    (res.op = "put" /\ res.err = "none")
        => /\ \A id \in Reachable :
                  LET r == readNode(Store, id) IN
                  (r.err = "none" /\ ~r.node.isLeaf)
                      => \A i \in 0..Len(r.node.keys) :
                             \A k \in KeySetUnder(ChildAt(r.node, i)) :
                                 /\ i > 0 => r.node.keys[i] <= k
                                 /\ i < Len(r.node.keys) => k < r.node.keys[i + 1]
           /\ \A k \in KeySetUnder(rootPageId) :
                  LET l == findLeafForKey(Store, rootPageId, k) IN
                  l.err = "none" /\ LeavesHolding(k) = {l.id}
           /\ opens >= 1 => KeySetUnder(rootPageId) = DOMAIN latest

\* a tree of three levels over an old file, every put key stored: the
\* separators of the root and of its internal children bound the keys below
SeparatorInvariantWitness ==
    /\ res.op = "put" /\ res.err = "none" /\ opens >= 1
    /\ KeySetUnder(rootPageId) = DOMAIN latest
    /\ LET r == readNode(Store, rootPageId) IN
       /\ r.err = "none" /\ ~r.node.isLeaf
       /\ \E i \in 1..Len(r.node.children) :
              LET c == readNode(Store, r.node.children[i]) IN
              c.err = "none" /\ ~c.node.isLeaf /\ Len(c.node.keys) >= 1

\* the value the leaf `node` holds for key k
ValueOf(node, k) == node.values[CHOOSE i \in 1..Len(node.keys) : node.keys[i] = k]

\* what the claim says of a split of the full leaf `node` by put(k, v):
\* r is what insertIntoLeaf returned
LeafSplitAsClaimed(node, k, v, r) ==
    LET all == AscendingSeq({node.keys[i] : i \in 1..Len(node.keys)} \cup {k})
        newLength == Len(node.keys) + 1
        mid == (newLength + 1) \div 2
        left == readNode(r.st, node.id)
        right == readNode(r.st, r.rightPageId)
    IN  /\ r.err = "none" /\ r.split
        /\ newLength = order + 1
        /\ r.rightPageId = nextPageId /\ r.st.next = nextPageId + 1
        /\ left.err = "none" /\ left.node.isLeaf /\ left.node.id = node.id
        /\ right.err = "none" /\ right.node.isLeaf /\ right.node.id = r.rightPageId
        /\ left.node.keys = SubSeq(all, 1, mid)
        /\ right.node.keys = SubSeq(all, mid + 1, newLength)
        /\ left.node.values =
               [i \in 1..mid |-> IF all[i] = k THEN v ELSE ValueOf(node, all[i])]
        /\ right.node.values =
               [i \in 1..(newLength - mid) |->
                   IF all[mid + i] = k THEN v ELSE ValueOf(node, all[mid + i])]
        /\ left.node.nextLeaf = right.node.id
        /\ right.node.nextLeaf = node.nextLeaf
        /\ r.promotedKey = right.node.keys[1]

\* the leaves of the tree that hold `order` keys
FullLeaves ==
    {id \in Reachable :
        LET r == readNode(Store, id) IN
        r.err = "none" /\ r.node.isLeaf /\ r.node.hasValues /\ Len(r.node.keys) = order}

SeqSet(q) == {q[i] : i \in 1..Len(q)}

\* what the claim says of the halves an internal split left: `before` is the
\* node as it was, left/right are the two nodes after the put, p the promoted key
InternalSplitAsClaimed(before, left, right, p, newIds) ==
    LET keys == left.keys \o <<p>> \o right.keys
        children == left.children \o right.children
        newLength == Len(keys)
        midIndex == newLength \div 2
    IN  /\ newLength = order + 1
        /\ ~left.isLeaf /\ ~right.isLeaf
        /\ left.id = before.id /\ right.id \in newIds
        /\ StrictlyAscending(keys)
        /\ SeqSet(before.keys) \subseteq SeqSet(keys)
        /\ Len(left.keys) = midIndex
        /\ keys[midIndex + 1] = p
        /\ p \notin SeqSet(left.keys) /\ p \notin SeqSet(right.keys)
        /\ Len(right.keys) = newLength - midIndex - 1
        /\ Len(left.children) = Len(left.keys) + 1
        /\ Len(right.children) = Len(right.keys) + 1
        /\ \A i, j \in 1..Len(children) : children[i] = children[j] => i = j
        /\ SeqSet(before.children) \subseteq SeqSet(children)
        /\ SeqSet(children) \ SeqSet(before.children) \subseteq newIds
        /\ Cardinality(SeqSet(children) \ SeqSet(before.children)) = 1

\* C16 (Internal split): when a put takes an internal node that holds `order`
\* keys to newLength = order + 1, with midIndex = floor(newLength / 2) the key
\* at midIndex is promoted to the parent and is in neither half, the left
\* node (same page id) keeps keys [0, midIndex) and children [0, midIndex],
\* a newly allocated right node gets the keys and children after midIndex,
\* both have one more child than keys, and no child id is lost or duplicated.
InternalSplit ==
    [][\A id \in Reachable :
        LET b == readNode(Store, id)
            l == readNode(Store', id)
            newIds == nextPageId..(nextPageId' - 1)
        IN  (/\ b.err = "none" /\ ~b.node.isLeaf /\ Len(b.node.keys) = order
             /\ l.err = "none" /\ l.node.keys # b.node.keys)
                => \E rid \in newIds : \E up \in Reach(Store', rootPageId', Len(file')) :
                       LET r == readNode(Store', rid)
                           u == readNode(Store', up)
                       IN  /\ r.err = "none" /\ u.err = "none" /\ ~u.node.isLeaf
                           /\ \E i \in 1..Len(u.node.keys) :
                                  /\ u.node.children[i] = id
                                  /\ u.node.children[i + 1] = rid
                                  /\ InternalSplitAsClaimed(b.node, l.node, r.node,
                                                            u.node.keys[i], newIds)]_vars

\* right after an internal split of the root: the new root's two children
\* are internal nodes of midIndex keys and of the remaining keys
InternalSplitWitness ==
    /\ res.op = "put" /\ res.err = "none"
    /\ rootPageId = nextPageId - 1
    /\ LET r == readNode(Store, rootPageId) IN
       /\ r.err = "none" /\ ~r.node.isLeaf /\ Len(r.node.children) = 2
       /\ LET a == readNode(Store, r.node.children[1])
              b == readNode(Store, r.node.children[2])
          IN  /\ a.err = "none" /\ ~a.node.isLeaf
              /\ b.err = "none" /\ ~b.node.isLeaf
              /\ Len(a.node.keys) = (order + 1) \div 2
              /\ Len(a.node.keys) + Len(b.node.keys) = order

\* the number of levels of the tree rooted at `root` in the store st, counted
\* along the descent through the first child of every node (r is what
\* readNode returned for the node at level d + 1)
RECURSIVE LevelsFrom(_, _, _)
LevelsFrom(st, r, d) ==
    IF d >= Len(st.file) \/ r.err # "none" \/ r.node.isLeaf THEN d + 1
    ELSE LevelsFrom(st, readNode(st, ChildAt(r.node, 0)), d + 1)

Height(st, root) == LevelsFrom(st, readNode(st, root), 0)

\* C17 (Root growth): the root id changes only in a put that completes and
\* whose split left the old root; the new root is a page that put allocated,
\* an internal node with one key (the promoted key, which separates the two
\* halves) and the two children [old root id, new right id]; the height grows
\* by exactly 1 then, and no other put, get or range changes it.
RootGrowth ==
    [][LET newIds == nextPageId..(nextPageId' - 1)
           r == readNode(Store', rootPageId')
       IN  /\ rootPageId' # rootPageId
                  => /\ res'.op = "put" /\ res'.err = "none"
                     /\ rootPageId' \in newIds
                     /\ Cardinality(newIds) >= 2
                     /\ r.err = "none" /\ ~r.node.isLeaf
                     /\ Len(r.node.keys) = 1
                     /\ Len(r.node.children) = 2
                     /\ r.node.children[1] = rootPageId
                     /\ r.node.children[2] \in newIds \ {rootPageId'}
                     /\ \A k \in KeySetUnderIn(Store', rootPageId) : k < r.node.keys[1]
                     /\ \A k \in KeySetUnderIn(Store', r.node.children[2]) :
                            k >= r.node.keys[1]
                     /\ r.node.keys[1] \in DOMAIN latest'
                     /\ Height(Store', rootPageId') = Height(Store, rootPageId) + 1
           /\ rootPageId' = rootPageId
                  => Height(Store', rootPageId') = Height(Store, rootPageId)]_vars

\* right after a put grew the root a second time (the old root, an internal
\* node, split): the root is the last page, its first child is an older page
\* and its second child the page allocated just before the root
RootGrowthWitness ==
    /\ res.op = "put" /\ res.err = "none"
    /\ rootPageId = Len(file) - 1
    /\ LET r == readNode(Store, rootPageId) IN
       /\ r.err = "none" /\ ~r.node.isLeaf
       /\ Len(r.node.keys) = 1
       /\ r.node.children = <<r.node.children[1], rootPageId - 1>>
       /\ r.node.children[1] < rootPageId - 1
    /\ Height(Store, rootPageId) = 3

\* what readNode returns for the nodes the descent for `key` visits, from the
\* root down (the last one may be a page that does not decode)
RECURSIVE PathFrom(_, _, _, _)
PathFrom(st, r, key, path) ==
    IF Len(path) > Len(st.file) \/ r.err # "none" \/ r.node.isLeaf THEN Append(path, r)
    ELSE PathFrom(st, readNode(st, ChildFor(r.node, key)), key, Append(path, r))

\* the page ids the descent for `key` visits, from the root down
RECURSIVE PathIdsFrom(_, _, _, _)
PathIdsFrom(st, id, key, fuel) ==
    LET r == readNode(st, id) IN
    IF fuel = 0 \/ r.err # "none" \/ r.node.isLeaf THEN {id}
    ELSE {id} \cup PathIdsFrom(st, ChildFor(r.node, key), key, fuel - 1)

\* the levels of `path` whose node overflows when `key` is put: the leaf
\* when it is full and does not hold key, an internal node when it is full
\* and the node below it overflows
Overflowing(path, key) ==
    LET n == Len(path)
        leafGrows == /\ path[n].err = "none" /\ path[n].node.isLeaf
                     /\ Len(path[n].node.keys) >= order
                     /\ key \notin SeqSet(path[n].node.keys)
    IN  {i \in 1..n : leafGrows /\ \A j \in i..n : Len(path[j].node.keys) >= order}

\* C18 (Single path): a put writes only pages on the root-to-leaf path of its
\* key or pages it allocates; it allocates one page per node of the path that
\* overflows plus one more iff the root itself split, so at most h + 1 pages
\* on a tree of height h, and none when the leaf does not overflow.
SinglePath ==
    [][\A k \in 1..DeepKeys :
        (res'.op = "put" /\ res'.a = k)
            => LET path == PathFrom(Store, readNode(Store, rootPageId), k, <<>>)
                   over == Overflowing(path, k)
                   newIds == nextPageId..(nextPageId' - 1)
                   r == insert(Store, rootPageId, k, res'.v)
               IN  /\ r.st.file = file' /\ r.st.next = nextPageId'
                   /\ r.st.wrote \subseteq
                          PathIdsFrom(Store, rootPageId, k, Len(file)) \cup newIds
                   /\ \A i \in 1..Len(file) :
                          file'[i] # file[i] => (i - 1) \in r.st.wrote
                   /\ Cardinality(newIds)
                          = Cardinality(over) + (IF 1 \in over THEN 1 ELSE 0)
                   /\ Cardinality(newIds) <= Len(path) + 1
                   /\ Len(path) \notin over => newIds = {}]_vars

\* the two halves the split of the full leaf `node` by put(k, v) is to write,
\* the right one in the page `rid`
HalvesOf(node, k, v, rid) ==
    LET all == AscendingSeq(SeqSet(node.keys) \cup {k})
        newLength == Len(all)
        mid == (newLength + 1) \div 2
        val(i) == IF all[i] = k THEN v ELSE ValueOf(node, all[i])
    IN  [left |-> [id |-> node.id, isLeaf |-> TRUE, keys |-> SubSeq(all, 1, mid),
                   children |-> <<>>, hasValues |-> TRUE,
                   values |-> [i \in 1..mid |-> val(i)], nextLeaf |-> rid],
         right |-> [id |-> rid, isLeaf |-> TRUE, keys |-> SubSeq(all, mid + 1, newLength),
                    children |-> <<>>, hasValues |-> TRUE,
                    values |-> [i \in 1..(newLength - mid) |-> val(mid + i)],
                    nextLeaf |-> node.nextLeaf]]

\* C19 (No rollback): a put that fails with PageOverflow leaves the root id
\* at its pre-call value and keeps the pages it allocated; when the failing
\* write is that of the right half of a leaf split (the left half fits in a
\* page, the right half does not), the left leaf stays rewritten with its
\* nextLeaf naming the allocated page, that page stays all zero, the earlier
\* keys that moved to the right half are no longer found and a range over
\* all keys raises.
NoRollback ==
    [][(res'.op = "put" /\ res'.err = "PageOverflow")
           => /\ rootPageId' = rootPageId
              /\ Len(file') = nextPageId'
              /\ nextPageId' >= nextPageId
              /\ LET l == findLeafForKey(Store, rootPageId, res'.a)
                     b == readNode(Store, l.id).node
                     h == HalvesOf(b, res'.a, res'.v, nextPageId)
                 IN  (/\ l.err = "none" /\ Len(b.keys) = order
                      /\ res'.a \notin SeqSet(b.keys)
                      /\ JsonSize(h.left) <= pageSize /\ JsonSize(h.right) > pageSize)
                         => /\ nextPageId' = nextPageId + 1
                            /\ file'[nextPageId + 1] = ZeroPage
                            /\ readNode(Store', b.id) = [err |-> "none", node |-> h.left]
                            /\ SeqSet(h.right.keys) \cap DOMAIN latest' # {}
                            /\ \A k \in SeqSet(h.right.keys) \cap DOMAIN latest' :
                                   search(Store', rootPageId', k) = Absent
                            /\ range(Store', rootPageId', 1, SmallKeys).err # "none"]_vars

\* after a put failed while writing the right half: the leaf it split names
\* a next leaf that is an all-zero page, and a key put earlier is not found
NoRollbackWitness ==
    /\ res.op = "put" /\ res.err = "PageOverflow"
    /\ file[Len(file)] = ZeroPage
    /\ \E id \in Reachable :
           LET r == readNode(Store, id) IN
           r.err = "none" /\ r.node.isLeaf /\ r.node.nextLeaf = Len(file) - 1
    /\ \E k \in DOMAIN latest : search(Store, rootPageId, k) = Absent

\* C20 (Queries are read-only): a get or a range, whether it returns or
\* raises, leaves every page's bytes, the file length, the next allocatable
\* page id and the root id unchanged, and the same query asked again gives
\* the same result.
ReadOnlyQueries ==
    [][(res'.op \in {"get", "range"})
           => /\ \A i \in 1..Len(file) : file'[i] = file[i]
              /\ Len(file') = Len(file)
              /\ nextPageId' = nextPageId
              /\ rootPageId' = rootPageId
              /\ res'.op = "get"
                     => search(Store', rootPageId', res'.a)
                            = [err |-> res'.err, isNull |-> res'.isNull,
                               value |-> res'.value]
              /\ res'.op = "range"
                     => range(Store', rootPageId', res'.a, res'.b)
                            = [err |-> res'.err, rows |-> res'.rows]]_vars

\* after a range that returned rows of a tree of two levels (other states:
\* after a get or a range that raised on the zeroed page 0)
ReadOnlyQueriesWitness ==
    /\ res.op = "range" /\ res.err = "none" /\ Len(res.rows) >= 2
    /\ ~readNode(Store, rootPageId).node.isLeaf

\* the leaf `node` after put(k, v) replaced the value of k or, for a new k,
\* inserted k and v at the sorted position
LeafWith(node, k, v) ==
    LET all == AscendingSeq(SeqSet(node.keys) \cup {k}) IN
    [node EXCEPT !.keys = all,
                 !.values = [i \in 1..Len(all) |->
                                IF all[i] = k THEN v ELSE ValueOf(node, all[i])]]

\* put(k, v) takes the leaf r (what readNode returned) to at most `order`
\* keys, and the leaf no longer encodes in a page
OverflowsInPlace(r, k, v) ==
    /\ r.err = "none" /\ r.node.isLeaf /\ r.node.hasValues
    /\ Len(r.node.keys) + (IF k \in SeqSet(r.node.keys) THEN 0 ELSE 1) <= order
    /\ JsonSize(LeafWith(r.node, k, v)) > pageSize

\* the leaf the descent for k ends at, as readNode returns it
TargetLeaf(l) == IF l.err # "none" THEN [err |-> l.err, node |-> NoNode] ELSE readNode(Store, l.id)

\* C21 (Overflow before any write): a put whose target leaf stays within
\* `order` keys (a new key or an overwrite) and whose leaf no longer encodes
\* in a page fails with PageOverflow before any page is written or
\* allocated: the page bytes, the file length, the next page id and the root
\* id are as before the call, and every earlier key gives from get what it
\* gave before.
OverflowBeforeWrite ==
    [][(/\ res'.op = "put"
        /\ OverflowsInPlace(TargetLeaf(findLeafForKey(Store, rootPageId, res'.a)),
                            res'.a, res'.v))
           => /\ res'.err = "PageOverflow"
              /\ file' = file
              /\ Len(file') = Len(file)
              /\ nextPageId' = nextPageId
              /\ rootPageId' = rootPageId
              /\ insert(Store, rootPageId, res'.a, res'.v).st.wrote = {}
              /\ latest' = latest
              /\ \A k \in DOMAIN latest :
                     search(Store', rootPageId', k) = search(Store, rootPageId, k)]_vars

\* after a put of the long value failed on a leaf below an internal node:
\* no page was added, and the keys put before are found with their values
OverflowBeforeWriteWitness ==
    /\ res.op = "put" /\ res.err = "PageOverflow" /\ res.v # "a"
    /\ ~readNode(Store, rootPageId).node.isLeaf
    /\ file[Len(file)] # ZeroPage
    /\ latest # <<>>
    /\ \A k \in DOMAIN latest : search(Store, rootPageId, k) = Found(latest[k])

====
